---- MODULE Spec2Model ----
(***************************************************************************)
(* gpxray: gpx_analyzer.py.  A GPX file is analysed for speed, elevation   *)
(* and segment-continuity anomalies (command analyze), or rewritten        *)
(* without timestamps and with its ends trimmed (command strip-privacy).   *)
(*                                                                         *)
(* Units.  Latitudes are counted in grid steps of 0.004 degree on one      *)
(* meridian; distances are in metres, times in seconds, elevations in      *)
(* metres, trim distance and radius in hundredths of a mile.               *)
(***************************************************************************)
EXTENDS Integers, Sequences, FiniteSets

VARIABLES cmd, input_file, opts, pc, exit_code,
          speed_issues, elevation_issues, continuity_issues, report,
          trk_i, seg_i, new_root, output_file

vars == <<cmd, input_file, opts, pc, exit_code,
          speed_issues, elevation_issues, continuity_issues, report,
          trk_i, seg_i, new_root, output_file>>

(* ------------------------------ bounds -------------------------------- *)

\* most track points in one input file
MaxPoints == 3

\* latitudes (grid steps), elevations, times of the sampled inputs
Lats == {0, 1}
Eles == {0, 50}
Times == {0, 200}
SegCounts == {1, 2, 3}

\* the longitude of every sampled point (one meridian)
Meridian == 0

\* an option not given, a value not yet set
None == [set |-> FALSE]
NoName == "NoName"
TrackNames == {NoName, "Test Track"}

(* --------------------------- program constants ------------------------ *)

\* metres between two neighbouring grid latitudes: 6371 km * radians(0.004)
StepMetres == 445

\* parameters of def _haversine_distance(self, lat1, lon1, lat2, lon2)
HaversineParams == 5

\* arguments of self._haversine_distance(p1.lat, p1.lon, p2.lat, p2.lon): self and four
MethodCallArgs == 5

\* arguments of GPXAnalyzer._haversine_distance(lat1, lon1, lat2, lon2): four, no instance
StaticCallArgs == 4

\* float(trim_distance) * 1.60934, on hundredths of a mile, in metres
MilesToKm(hundredths) == (hundredths * 160934) \div 10000

\* click.Choice(['0.25', '0.5', '1.0']) of --trim-distance and of --start-radius
TrimChoices == {25, 50, 100}
RadiusChoices == {25, 50, 100}

\* the trim distances asked for on the command line: the choices, and 0 (no trim)
TrimRequests == TrimChoices \cup {0}

\* click's validation of the two Choice options, before the callback runs
accepted(o) == o.trim_distance \in TrimChoices /\ o.start_radius \in RadiusChoices

\* the defaults of analyze's options, and thresholds as low as the tests use
DefaultOpts == [max_speed |-> 100, max_elevation_change |-> 100, max_gap |-> 300]
StrictOpts == [max_speed |-> 1, max_elevation_change |-> 5, max_gap |-> 0]

(* ------------------------------ inputs -------------------------------- *)

\* a <trkpt>: lat and lon attributes, a <time> child and, when present, an <ele> child
Trkpt(lat, ele, time) == [lat |-> lat, lon |-> Meridian, ele |-> ele, time |-> time]
TrkptNoEle(lat, time) == [lat |-> lat, lon |-> Meridian, time |-> time]

\* points with every field, all combinations (what the scans look at)
PointsA == {Trkpt(la, e, t) : la \in Lats, e \in Eles, t \in Times}
\* points with or without elevation (what strip-privacy looks at)
PointsS == {Trkpt(la, 50, 0) : la \in Lats} \cup {TrkptNoEle(la, 0) : la \in Lats}

SeqsUpTo(S, n) == UNION {[1..k -> S] : k \in 0..n}

RECURSIVE SumSeq(_)
SumSeq(s) == IF s = <<>> THEN 0 ELSE Head(s) + SumSeq(Tail(s))

\* the ways to cut n points into a sequence of segments (empty ones included)
Cuts(n) == {c \in UNION {[1..k -> 0..n] : k \in SegCounts} : SumSeq(c) = n}

RECURSIVE CutUp(_, _)
CutUp(pts, c) ==
    IF c = <<>> THEN <<>>
    ELSE <<SubSeq(pts, 1, Head(c))>> \o CutUp(SubSeq(pts, Head(c) + 1, Len(pts)), Tail(c))

\* a file: one <trk> with or without a <name>, and its <trkseg>s
File(nm, pts, c) == <<[name |-> nm, segs |-> CutUp(pts, c)]>>

\* input_file is some file of at most MaxPoints points drawn from P
IsFileOf(P) ==
    \E pts \in SeqsUpTo(P, MaxPoints) :
        \E c \in Cuts(Len(pts)) :
            \E nm \in TrackNames : input_file = File(nm, pts, c)

(* --------------------------- GPXAnalyzer ------------------------------ *)

Abs(x) == IF x < 0 THEN -x ELSE x

\* the haversine formula between two points of one meridian: a = sin^2(dlat/2),
\* c = 2 asin(sqrt(a)) = |dlat| and distance = R * |dlat|, here in metres
haversine_distance(lat1, lon1, lat2, lon2) == StepMetres * Abs(lat2 - lat1)

\* a call of _haversine_distance with nargs positional arguments (self included):
\* Python raises TypeError unless they fill the five parameters
call_haversine(nargs, lat1, lon1, lat2, lon2) ==
    IF nargs = HaversineParams
    THEN [raised |-> FALSE, value |-> haversine_distance(lat1, lon1, lat2, lon2)]
    ELSE [raised |-> TRUE, value |-> 0]

\* _parse_trackpoint raises (None has no .text) when the point has no <ele>
parse_raises(trkpt) == "ele" \notin DOMAIN trkpt

points_raise(trkseg) == \E k \in 1..Len(trkseg) : parse_raises(trkseg[k])

\* f"Track {trk.find(name).text}" raises when the track has no <name>
location_raises(trk) == trk.name = NoName

\* the speed test of one pair: elapsed hours > 0 and distance / hours > threshold,
\* with distance in metres and time in seconds: d/1000 / (dt/3600) > thr
speed_exceeds(p1, p2, max_speed_threshold) ==
    LET distance == call_haversine(MethodCallArgs, p1.lat, p1.lon, p2.lat, p2.lon).value
        dt == p2.time - p1.time
    IN  dt > 0 /\ distance * 36 > max_speed_threshold * dt * 10

elevation_exceeds(p1, p2, max_elevation_change) ==
    Abs(p2.ele - p1.ele) > max_elevation_change

Issue(type, trk, p) == [type |-> type, location |-> trk.name, time |-> p.time]

\* the pair loop of one segment, from pair i on: the issues in order, or a raise
RECURSIVE pair_issues(_, _, _, _, _)
pair_issues(type, trk, points, i, thr) ==
    IF i >= Len(points) THEN [raised |-> FALSE, issues |-> <<>>]
    ELSE LET p1 == points[i]
             p2 == points[i + 1]
             hit == IF type = "speed" THEN speed_exceeds(p1, p2, thr)
                    ELSE elevation_exceeds(p1, p2, thr)
             rest == pair_issues(type, trk, points, i + 1, thr)
         IN  IF hit /\ location_raises(trk) THEN [raised |-> TRUE, issues |-> <<>>]
             ELSE IF rest.raised THEN rest
             ELSE [raised |-> FALSE,
                   issues |-> (IF hit THEN <<Issue(type, trk, p1)>> ELSE <<>>) \o rest.issues]

\* the segment loop of one track, from segment s on
RECURSIVE seg_issues(_, _, _, _)
seg_issues(type, trk, s, thr) ==
    IF s > Len(trk.segs) THEN [raised |-> FALSE, issues |-> <<>>]
    ELSE IF points_raise(trk.segs[s]) THEN [raised |-> TRUE, issues |-> <<>>]
    ELSE LET here == pair_issues(type, trk, trk.segs[s], 1, thr)
             rest == seg_issues(type, trk, s + 1, thr)
         IN  IF here.raised THEN here
             ELSE IF rest.raised THEN rest
             ELSE [raised |-> FALSE, issues |-> here.issues \o rest.issues]

\* the adjacent-segment loop of one track, from pair i on
RECURSIVE gap_issues(_, _, _)
gap_issues(trk, i, max_gap) ==
    IF i >= Len(trk.segs) THEN [raised |-> FALSE, issues |-> <<>>]
    ELSE IF points_raise(trk.segs[i]) \/ points_raise(trk.segs[i + 1])
         THEN [raised |-> TRUE, issues |-> <<>>]
    ELSE LET seg1_points == trk.segs[i]
             seg2_points == trk.segs[i + 1]
             hit == /\ seg1_points # <<>>
                    /\ seg2_points # <<>>
                    /\ seg2_points[1].time - seg1_points[Len(seg1_points)].time > max_gap
             rest == gap_issues(trk, i + 1, max_gap)
         IN  IF hit /\ location_raises(trk) THEN [raised |-> TRUE, issues |-> <<>>]
             ELSE IF rest.raised THEN rest
             ELSE [raised |-> FALSE,
                   issues |-> (IF hit
                               THEN <<Issue("continuity", trk, seg1_points[Len(seg1_points)])>>
                               ELSE <<>>) \o rest.issues]

\* the track loop of a scan, from track t on
RECURSIVE scan(_, _, _, _)
scan(type, root, t, thr) ==
    IF t > Len(root) THEN [raised |-> FALSE, issues |-> <<>>]
    ELSE LET here == IF type = "continuity" THEN gap_issues(root[t], 1, thr)
                     ELSE seg_issues(type, root[t], 1, thr)
             rest == scan(type, root, t + 1, thr)
         IN  IF here.raised THEN here
             ELSE IF rest.raised THEN rest
             ELSE [raised |-> FALSE, issues |-> here.issues \o rest.issues]

analyze_speed(root, max_speed_threshold) == scan("speed", root, 1, max_speed_threshold)
analyze_elevation(root, max_elevation_change) == scan("elevation", root, 1, max_elevation_change)
analyze_segment_continuity(root, max_gap) == scan("continuity", root, 1, max_gap)

(* --------------------------- strip-privacy ---------------------------- *)

Raise == [raised |-> TRUE, value |-> <<>>]
Return(v) == [raised |-> FALSE, value |-> v]

\* the cumulative distances of a segment, from pair i (1-based) on, total so far
RECURSIVE cumulative_distances(_, _, _)
cumulative_distances(trkpts, i, total_distance) ==
    IF i >= Len(trkpts) THEN Return(<<>>)
    ELSE LET c == call_haversine(StaticCallArgs, trkpts[i].lat, trkpts[i].lon,
                                 trkpts[i + 1].lat, trkpts[i + 1].lon)
         IN  IF c.raised THEN Raise
             ELSE LET rest == cumulative_distances(trkpts, i + 1, total_distance + c.value)
                  IN  IF rest.raised THEN Raise
                      ELSE Return(<<total_distance + c.value>> \o rest.value)

\* trim from start: the first index i (from 0) with distances[i] >= trim, else 0
start_index(distances, trim_distance_km) ==
    LET hits == {j \in 1..Len(distances) : distances[j] >= trim_distance_km}
    IN  IF hits = {} THEN 0
        ELSE (CHOOSE j \in hits : \A k \in hits : j <= k) - 1

\* trim from end: the last index i with total - distances[i] >= trim gives i + 1,
\* else len(trkpts)
end_index(distances, total_distance, n, trim_distance_km) ==
    LET hits == {j \in 1..Len(distances) : total_distance - distances[j] >= trim_distance_km}
    IN  IF hits = {} THEN n
        ELSE (CHOOSE j \in hits : \A k \in hits : j >= k) - 1 + 1

\* a slip: the whole source element is copied, timestamp included
copy_trkpt(trkpt) == trkpt

\* the new <trkpt>: lat, lon and, when the source has one, ele
new_trkpt(trkpt) ==
    IF "ele" \in DOMAIN trkpt
    THEN [lat |-> trkpt.lat, lon |-> trkpt.lon, ele |-> trkpt.ele]
    ELSE [lat |-> trkpt.lat, lon |-> trkpt.lon]

\* the range test of the point loop: skip i < start_idx or i >= end_idx
in_range(i, start_idx, end_idx) == ~(i < start_idx \/ i >= end_idx)

\* the point loop, from point i (from 0) on
RECURSIVE kept_points(_, _, _, _, _, _)
kept_points(trkpts, i, start_idx, end_idx, start, start_radius_km) ==
    IF i >= Len(trkpts) THEN Return(<<>>)
    ELSE LET trkpt == trkpts[i + 1]
             rest == kept_points(trkpts, i + 1, start_idx, end_idx, start, start_radius_km)
             near == IF ~start.set THEN Return(FALSE)
                     ELSE LET c == call_haversine(StaticCallArgs, start.lat, start.lon,
                                                  trkpt.lat, trkpt.lon)
                          IN  IF c.raised THEN Raise ELSE Return(c.value <= start_radius_km)
         IN  IF ~in_range(i, start_idx, end_idx) THEN rest
             ELSE IF near.raised THEN Raise
             ELSE IF rest.raised THEN Raise
             ELSE IF near.value THEN rest
             ELSE Return(<<new_trkpt(trkpt)>> \o rest.value)

\* the body of the segment loop: the points of the new <trkseg>, or a raise
strip_segment(trkpts, o) ==
    IF trkpts = <<>> THEN Return(<<>>)
    ELSE LET d == cumulative_distances(trkpts, 1, 0)
         IN  IF d.raised THEN Raise
             ELSE LET distances == d.value
                      total_distance == IF distances = <<>> THEN 0
                                        ELSE distances[Len(distances)]
                      trim_distance_km == MilesToKm(o.trim_distance)
                  IN  kept_points(trkpts, 0,
                                  start_index(distances, trim_distance_km),
                                  end_index(distances, total_distance, Len(trkpts),
                                            trim_distance_km),
                                  o.start, MilesToKm(o.start_radius))

RECURSIVE strip_segments(_, _, _)
strip_segments(segs, s, o) ==
    IF s > Len(segs) THEN Return(<<>>)
    ELSE LET here == strip_segment(segs[s], o)
         IN  IF here.raised THEN Raise
             ELSE LET rest == strip_segments(segs, s + 1, o)
                  IN  IF rest.raised THEN Raise ELSE Return(<<here.value>> \o rest.value)

\* the whole callback as a function of the parsed input: the new tree, or a raise
RECURSIVE strip_privacy(_, _, _)
strip_privacy(root, t, o) ==
    IF t > Len(root) THEN Return(<<>>)
    ELSE LET here == strip_segments(root[t].segs, 1, o)
         IN  IF here.raised THEN Raise
             ELSE LET rest == strip_privacy(root, t + 1, o)
                  IN  IF rest.raised THEN Raise
                      ELSE Return(<<[name |-> root[t].name, segs |-> here.value]>>
                                  \o rest.value)

\* the output file before the run: not there, there with older content, or a
\* path that cannot be opened for writing (its directory does not exist)
Absent == [state |-> "absent", tree |-> <<>>]
Stale == [state |-> "stale", tree |-> <<>>]
Unwritable == [state |-> "unwritable", tree |-> <<>>]
Written(tree) == [state |-> "written", tree |-> tree]

\* a slip: the tree built so far is written before exiting
on_exception_flush(file, tree) == Written(tree)

\* what the except clause leaves in the output file: it echoes and exits, no write
on_exception(file, tree) == file

\* the options of a run: no start location (the radius then is the default one),
\* or a start location on the first grid latitude with any of the radii
DefaultRadius == 25
Anchor == [set |-> TRUE, lat |-> 0, lon |-> Meridian]
StripOptions ==
    {[trim_distance |-> td, start |-> None, start_radius |-> DefaultRadius] :
        td \in TrimRequests}
    \cup {[trim_distance |-> td, start |-> Anchor, start_radius |-> sr] :
        td \in TrimRequests, sr \in RadiusChoices}

(* ------------------------------ the program --------------------------- *)

Init ==
    /\ \/ cmd = "analyze" /\ IsFileOf(PointsA \cup PointsS)
          /\ output_file = Absent
       \/ cmd = "strip-privacy" /\ IsFileOf(PointsS)
          /\ output_file \in {Absent, Stale, Unwritable}
    /\ opts = None
    /\ pc = "start"
    /\ exit_code = "running"
    /\ speed_issues = <<>>
    /\ elevation_issues = <<>>
    /\ continuity_issues = <<>>
    /\ report = <<>>
    /\ trk_i = 0
    /\ seg_i = 0
    /\ new_root = <<>>

Crash == /\ pc' = "done"
         /\ exit_code' = "exit 1"

\* the analyze command: the three scans in turn, then the report; a raise in a
\* scan is not caught and ends the command with a traceback
Analyze ==
    /\ cmd = "analyze" /\ pc = "start"
    /\ \E o \in {DefaultOpts, StrictOpts} :
         /\ opts' = o
         /\ LET s == analyze_speed(input_file, o.max_speed)
                e == analyze_elevation(input_file, o.max_elevation_change)
                c == analyze_segment_continuity(input_file, o.max_gap)
            IN  IF s.raised \/ e.raised \/ c.raised
                THEN /\ Crash
                     /\ UNCHANGED <<speed_issues, elevation_issues, continuity_issues,
                                    report>>
                ELSE /\ speed_issues' = s.issues
                     /\ elevation_issues' = e.issues
                     /\ continuity_issues' = c.issues
                     /\ report' = <<Len(s.issues \o e.issues \o c.issues)>>
                     /\ pc' = "done"
                     /\ exit_code' = "exit 0"
    /\ UNCHANGED <<cmd, input_file, trk_i, seg_i, new_root, output_file>>

\* click checks the options: a value that is no choice is a usage error (exit 2)
\* and the callback does not run; else parse the input, create the new root,
\* convert the options
StripOpen ==
    /\ cmd = "strip-privacy" /\ pc = "start"
    /\ \E o \in StripOptions :
         /\ opts' = o
         /\ IF ~accepted(o)
            THEN /\ pc' = "done"
                 /\ exit_code' = "exit 2"
                 /\ UNCHANGED <<new_root, trk_i>>
            ELSE /\ new_root' = <<>>
                 /\ trk_i' = 1
                 /\ pc' = "track"
                 /\ UNCHANGED exit_code
    /\ UNCHANGED <<cmd, input_file, speed_issues, elevation_issues,
                   continuity_issues, report, seg_i, output_file>>

\* the head of the track loop: the new <trk> and its name
StripTrack ==
    /\ cmd = "strip-privacy" /\ pc = "track"
    /\ trk_i <= Len(input_file)
    /\ new_root' = Append(new_root, [name |-> input_file[trk_i].name, segs |-> <<>>])
    /\ seg_i' = 1
    /\ IF Len(input_file[trk_i].segs) = 0
       THEN trk_i' = trk_i + 1 /\ pc' = "track"
       ELSE trk_i' = trk_i /\ pc' = "segment"
    /\ UNCHANGED <<cmd, input_file, opts, exit_code, speed_issues, elevation_issues,
                   continuity_issues, report, output_file>>

\* one pass of the segment loop; a raise goes to the except clause, with the
\* new <trkseg> already in the tree and still empty: it is created first, and
\* both raising calls come before the first point is added
StripSegment ==
    /\ cmd = "strip-privacy" /\ pc = "segment"
    /\ LET segs == input_file[trk_i].segs
           r == strip_segment(segs[seg_i], opts)
       IN  IF r.raised
           THEN /\ Crash
                /\ new_root' = [new_root EXCEPT ![trk_i].segs = Append(@, <<>>)]
                /\ output_file' = on_exception(output_file, new_root')
                /\ UNCHANGED <<trk_i, seg_i>>
           ELSE /\ new_root' = [new_root EXCEPT ![trk_i].segs = Append(@, r.value)]
                /\ IF seg_i < Len(segs)
                   THEN seg_i' = seg_i + 1 /\ trk_i' = trk_i /\ pc' = "segment"
                   ELSE seg_i' = seg_i /\ trk_i' = trk_i + 1 /\ pc' = "track"
                /\ UNCHANGED <<exit_code, output_file>>
    /\ UNCHANGED <<cmd, input_file, opts, speed_issues, elevation_issues,
                   continuity_issues, report>>

\* tree.write(output_file) after the loops; when the path cannot be opened the
\* write raises and the except clause ends the run
StripWrite ==
    /\ cmd = "strip-privacy" /\ pc = "track"
    /\ trk_i > Len(input_file)
    /\ IF output_file = Unwritable
       THEN /\ Crash
            /\ output_file' = on_exception(output_file, new_root)
       ELSE /\ output_file' = Written(new_root)
            /\ pc' = "done"
            /\ exit_code' = "exit 0"
    /\ UNCHANGED <<cmd, input_file, opts, speed_issues, elevation_issues,
                   continuity_issues, report, trk_i, seg_i, new_root>>

Next ==
    \/ Analyze
    \/ StripOpen
    \/ StripTrack
    \/ StripSegment
    \/ StripWrite

Spec == Init /\ [][Next]_vars

(* ------------------------------ properties ---------------------------- *)

StripDone == cmd = "strip-privacy" /\ pc = "done"
Writable == output_file.state # "unwritable"
AnalyzeDone == cmd = "analyze" /\ pc = "done"
WroteOutput == output_file.state = "written"

\* the points of a tree, as <<track, segment, position>>
PointsOf(tree) ==
    {<<t, s, k>> \in (1..Len(tree)) \X (1..MaxPoints + 1) \X (1..MaxPoints + 1) :
        /\ s <= Len(tree[t].segs)
        /\ k <= Len(tree[t].segs[s])}

SegmentsOf(tree) ==
    {<<t, s>> \in (1..Len(tree)) \X (1..MaxPoints + 1) : s <= Len(tree[t].segs)}

\* every point of the file has the fields _parse_trackpoint reads
Ingested(tree) == \A q \in PointsOf(tree) : ~parse_raises(tree[q[1]].segs[q[2]][q[3]])

\* the point without its timestamp
Stripped(trkpt) == [f \in DOMAIN trkpt \ {"time"} |-> trkpt[f]]

\* C1: whenever strip-privacy has built or written output, every point of it has
\* a latitude and a longitude, at most an elevation besides, and no timestamp
C1_NoTimestampInOutput ==
    \A tree \in {new_root, output_file.tree} :
        \A q \in PointsOf(tree) :
            LET p == tree[q[1]].segs[q[2]][q[3]]
            IN  /\ {"lat", "lon"} \subseteq DOMAIN p
                /\ DOMAIN p \subseteq {"lat", "lon", "ele"}

\* a written output holding a point with an elevation and a point without one,
\* from source points that all had a timestamp
C1_Witness ==
    /\ WroteOutput
    /\ \E q \in PointsOf(output_file.tree) :
           "ele" \in DOMAIN output_file.tree[q[1]].segs[q[2]][q[3]]
    /\ \E q \in PointsOf(output_file.tree) :
           "ele" \notin DOMAIN output_file.tree[q[1]].segs[q[2]][q[3]]
    /\ \A q \in PointsOf(input_file) :
           "time" \in DOMAIN input_file[q[1]].segs[q[2]][q[3]]

\* C2: with trim distance 0 and no start location, the run writes an output whose
\* segments hold exactly the input's points, in order, without their timestamps
C2_RoundTrip ==
    (StripDone /\ Writable /\ opts.trim_distance = 0 /\ ~opts.start.set) =>
        /\ WroteOutput
        /\ Len(output_file.tree) = Len(input_file)
        /\ \A q \in SegmentsOf(input_file) :
               output_file.tree[q[1]].segs[q[2]] =
                   [k \in 1..Len(input_file[q[1]].segs[q[2]]) |->
                        Stripped(input_file[q[1]].segs[q[2]][k])]

NoTrimNoAnchor == [trim_distance |-> 0, start |-> None, start_radius |-> DefaultRadius]

\* C3: the transform with trim distance 0 and no start location can be applied
\* to an output the transform wrote, succeeds and returns that same tree
C3_Idempotent ==
    WroteOutput =>
        LET again == strip_privacy(output_file.tree, 1, NoTrimNoAnchor)
        IN  accepted(NoTrimNoAnchor) /\ ~again.raised /\ again.value = output_file.tree

\* the consecutive pairs of the file whose elapsed time is positive and whose
\* speed exceeds the threshold, as <<track, segment, position of p1>>
FastPairs(tree, thr) ==
    {q \in PointsOf(tree) :
        /\ q[3] < Len(tree[q[1]].segs[q[2]])
        /\ LET p1 == tree[q[1]].segs[q[2]][q[3]]
               p2 == tree[q[1]].segs[q[2]][q[3] + 1]
           IN  /\ p2.time - p1.time > 0
               /\ haversine_distance(p1.lat, p1.lon, p2.lat, p2.lon) * 36
                      > thr * (p2.time - p1.time) * 10}

\* C4: on an ingested file analyze_speed returns a list holding one speed issue
\* per consecutive pair with positive elapsed time and speed above the threshold,
\* and none for any other pair
C4_SpeedIssueIff ==
    (AnalyzeDone /\ Ingested(input_file)) =>
        LET r == analyze_speed(input_file, opts.max_speed)
        IN  /\ ~r.raised
            /\ Len(r.issues) = Cardinality(FastPairs(input_file, opts.max_speed))
            /\ \A q \in FastPairs(input_file, opts.max_speed) :
                   \E n \in 1..Len(r.issues) :
                       r.issues[n].time = input_file[q[1]].segs[q[2]][q[3]].time

\* the adjacent segment pairs, both non-empty, whose time gap exceeds max_gap
WideGaps(tree, max_gap) ==
    {q \in SegmentsOf(tree) :
        /\ q[2] < Len(tree[q[1]].segs)
        /\ LET seg1 == tree[q[1]].segs[q[2]]
               seg2 == tree[q[1]].segs[q[2] + 1]
           IN  /\ seg1 # <<>>
               /\ seg2 # <<>>
               /\ seg2[1].time - seg1[Len(seg1)].time > max_gap}

\* C5: on an ingested file analyze_segment_continuity returns a list holding one
\* issue per adjacent pair of non-empty segments whose gap exceeds max_gap, with
\* the time of the last point of the first segment, and none for any other pair
C5_ContinuityIssueIff ==
    (AnalyzeDone /\ Ingested(input_file)) =>
        LET r == analyze_segment_continuity(input_file, opts.max_gap)
        IN  /\ ~r.raised
            /\ Len(r.issues) = Cardinality(WideGaps(input_file, opts.max_gap))
            /\ \A q \in WideGaps(input_file, opts.max_gap) :
                   \E n \in 1..Len(r.issues) :
                       r.issues[n].time =
                           input_file[q[1]].segs[q[2]][Len(input_file[q[1]].segs[q[2]])].time

\* every segment has two or more points, each with an elevation
WellFormedLong(tree) ==
    /\ Ingested(tree)
    /\ \A q \in SegmentsOf(tree) : Len(tree[q[1]].segs[q[2]]) >= 2

\* C6: strip-privacy without a start location, on a file whose segments all have
\* two or more complete points, exits 0 and has written the output file
C6_StripSucceeds ==
    (StripDone /\ Writable /\ ~opts.start.set /\ accepted(opts)
               /\ WellFormedLong(input_file)) =>
        (exit_code = "exit 0" /\ WroteOutput)

\* C7: on an ingested file, named or not, the analysis ends normally with a
\* count of issues
C7_AnalysisCompletes ==
    (AnalyzeDone /\ Ingested(input_file)) => (exit_code = "exit 0" /\ report # <<>>)

\* C8: the output file is written only by a run that processed every track and
\* segment without error and exited 0, and then holds the whole result; a run in
\* which a segment raises exits 1, and every run that ends without having
\* written exits non-zero and leaves the output file as it was
C8_AllOrNothing ==
    cmd = "strip-privacy" =>
        /\ WroteOutput =>
               /\ pc = "done" /\ exit_code = "exit 0"
               /\ accepted(opts)
               /\ ~strip_privacy(input_file, 1, opts).raised
               /\ output_file.tree = strip_privacy(input_file, 1, opts).value
        /\ (pc = "done" /\ accepted(opts) /\ strip_privacy(input_file, 1, opts).raised) =>
               (exit_code = "exit 1" /\ ~WroteOutput)
        /\ (pc = "done" /\ ~WroteOutput) => exit_code \in {"exit 1", "exit 2"}
        /\ exit_code = "exit 0" => WroteOutput

\* a run that failed in a later segment, after a point of an earlier segment had
\* been added to the new tree, with the output file untouched
C8_Witness ==
    /\ StripDone /\ exit_code = "exit 1" /\ Writable
    /\ PointsOf(new_root) # {}
    /\ ~WroteOutput

\* an output is only ever written for a file whose segments have at most one
\* point: the distance call of the segment loop raises on the first pair
OutputOnlyFromShortSegments ==
    WroteOutput => \A q \in SegmentsOf(input_file) : Len(input_file[q[1]].segs[q[2]]) <= 1

\* the along-track distance of point k of a segment from its first point
RECURSIVE AlongTrack(_, _)
AlongTrack(trkpts, k) ==
    IF k <= 1 THEN 0
    ELSE AlongTrack(trkpts, k - 1)
         + haversine_distance(trkpts[k - 1].lat, trkpts[k - 1].lon,
                              trkpts[k].lat, trkpts[k].lon)

\* C9: with no start location, a segment none of whose cumulative distances
\* reaches the trim distance is in the output with every one of its points
C9_ShortSegmentKept ==
    (StripDone /\ Writable /\ accepted(opts) /\ ~opts.start.set) =>
        \A q \in SegmentsOf(input_file) :
            LET trkpts == input_file[q[1]].segs[q[2]]
            IN  (\A k \in 2..Len(trkpts) :
                     AlongTrack(trkpts, k) < MilesToKm(opts.trim_distance)) =>
                    /\ WroteOutput
                    /\ output_file.tree[q[1]].segs[q[2]] =
                           [k \in 1..Len(trkpts) |-> Stripped(trkpts[k])]
====
